---- MODULE Spec2Model ----
(***************************************************************************)
(* State-machine model of src/app.js: the WebR bootstrap (initWebR), the   *)
(* session runner (runCode), the console history controller, the help      *)
(* resolver and the plot gallery.                                          *)
(*                                                                         *)
(* Text is modelled as a sequence of tokens (each token a piece of a       *)
(* JavaScript string); " " and "\n" are the whitespace tokens.  Every      *)
(* action is one run-to-completion turn of the single-threaded event       *)
(* loop: the code from an event (or from the settlement of an interpreter  *)
(* promise) up to the next await on the interpreter.                       *)
(***************************************************************************)
EXTENDS Integers, Sequences, FiniteSets, TLC

VARIABLES
  webR,              \* line 5: FALSE is null
  initPc,            \* the await initWebR (299-349) is suspended at
  statusDot,         \* setStatus: class of #statusDot
  statusText,        \* setStatus: text of #statusText
  runBtnDisabled,    \* runBtn.disabled
  readOnly,          \* consoleInput's readOnly option
  editorReadOnly,    \* editor's readOnly option
  consoleOutput,     \* children of #consoleOutput: records [type, text]
  consoleValue,      \* consoleInput.getValue()
  commandHistory,    \* line 9
  historyIndex,      \* line 10
  plotImages,        \* line 11
  currentPlotIndex,  \* line 12
  helpTopic,         \* text of #helpTopic
  helpContent,       \* content of #helpContent
  isRunning,         \* line 8
  runs,              \* the suspended runCode invocations, oldest first:
                     \* the locals of each and the await it is at
  liveShelters,      \* shelters acquired on which purge() was not yet called
  dropped,           \* observer: a console submission hit line 352 with
                     \* isRunning set since the Run Lock was last taken
  submitted          \* observer: the codes handleConsoleEnter passed to
                     \* runCode (line 109), in submission order

vars == <<webR, initPc, statusDot, statusText, runBtnDisabled, readOnly,
          editorReadOnly, consoleOutput, consoleValue, commandHistory,
          historyIndex, plotImages, currentPlotIndex, helpTopic, helpContent,
          isRunning, runs, liveShelters, dropped, submitted>>

\* ----------------------------------------------------------------- bounds
\* runCode invocations suspended at an await at the same time
MaxInFlight == 2
\* a submission is explored while #consoleOutput and plotImages together
\* hold at most MaxShown entries (the program caps neither)
MaxShown == 0
\* console submissions are explored while commandHistory is shorter
MaxHist == 2
\* in a Ready session whose console and help panel were never used, a
\* submission is also explored while plotImages holds at most MaxPlots
\* entries and #consoleOutput is empty
MaxPlots == 2

Slots == 1..MaxInFlight

\* ------------------------------------------------------------------- text
IsSpace(c) == c \in {" ", "\n"}

RECURSIVE TrimStart(_)
TrimStart(s) ==
  IF s = <<>> THEN <<>>
  ELSE IF IsSpace(Head(s)) THEN TrimStart(Tail(s)) ELSE s

RECURSIVE TrimEnd(_)
TrimEnd(s) ==
  IF s = <<>> THEN <<>>
  ELSE IF IsSpace(s[Len(s)]) THEN TrimEnd(SubSeq(s, 1, Len(s) - 1)) ELSE s

\* String.prototype.trim
Trim(s) == TrimEnd(TrimStart(s))

\* code.split('\n') of line 368
RECURSIVE SplitLines(_)
SplitLines(s) ==
  IF \A i \in 1..Len(s) : s[i] # "\n" THEN <<s>>
  ELSE LET k == CHOOSE i \in 1..Len(s) :
                  s[i] = "\n" /\ \A j \in 1..(i - 1) : s[j] # "\n"
       IN <<SubSeq(s, 1, k - 1)>> \o SplitLines(SubSeq(s, k + 1, Len(s)))

Quotes == {"\"", "'"}

\* group 1 of /^\?(.+)$/, or <<>> when the pattern does not match
QuestionMatch(code) ==
  IF /\ Len(code) >= 2
     /\ code[1] = "?"
     /\ \A i \in 2..Len(code) : code[i] # "\n"
  THEN Tail(code) ELSE <<>>

\* group 1 of /^help\(["']?([^"')]+)["']?\)$/, or <<>> when it does not match
HelpCallMatch(code) ==
  LET n == Len(code)
      cands == { <<a, b>> \in (2..n) \X (1..n) :
                   /\ a \in {2, 3} /\ b \in {n - 1, n - 2} /\ a <= b
                   /\ (a = 3 => code[2] \in Quotes)
                   /\ (b = n - 2 => code[n - 1] \in Quotes)
                   /\ \A i \in a..b : code[i] \notin (Quotes \cup {")"}) }
  IN IF n >= 3 /\ code[1] = "help(" /\ code[n] = ")" /\ cands # {}
     THEN LET c == CHOOSE c \in cands : TRUE IN SubSeq(code, c[1], c[2])
     ELSE <<>>

\* lines 207-210; <<>> stands for both falsy results, null and ''
isHelpRequest(code) ==
  IF QuestionMatch(code) # <<>> THEN Trim(QuestionMatch(code))
  ELSE IF HelpCallMatch(code) # <<>> THEN Trim(HelpCallMatch(code))
  ELSE <<>>

\* ---------------------------------------------------------------- display
\* the element appendConsole (164-173) adds
Line(type, text) == [type |-> type, text |-> text]

\* error.message values the interpreter boundary raises with, one per call site
InitErrors == {<<"init failed">>}
ShelterErrors == {<<"no shelter">>}
EvalErrors == {<<"object not found">>}
PurgeErrors == {<<"purge failed">>}
HelpErrors == {<<"help failed">>}
\* what imageBitmapToDataUrl (239-246) throws when the canvas cannot draw
ImageError == <<"drawImage failed">>

\* 'Error: ' + error.message of lines 346 and 408
ErrorLine(msg) == Line("stderr", <<"Error: ">> \o msg)

\* no exception is propagating
NoError == <<>>

\* ------------------------------------------------------------ interpreter
\* result.output / result.images values shelter.captureR may resolve with
CaptureResults ==
  { [output |-> <<>>, images |-> <<>>],
    [output |-> << [type |-> "stdout", data |-> <<"[1] 2">>],
                   [type |-> "stdout", data |-> <<" ">>],
                   [type |-> "stderr", data |-> <<"\n">>],
                   [type |-> "stderr", data |-> <<"NaNs produced">>],
                   [type |-> "message", data |-> <<>>] >>,
     images |-> <<"img1", "img2">>] }

\* text webR.evalRString may resolve with in getHelp
HelpTexts == {<<"_Title_", "\n", "a < b">>}

\* ------------------------------------------------------------------ input
\* what the editor's selection or current line may hold (135-146)
EditorCodes == {<<" ">>, <<" ", "x", "\n", "y", " ">>, <<"?", "mean">>}
\* a line of the editor asking for the documentation of a second topic
EditorHelpCalls == {<<"help(", "\"", "sd", "\"", ")">>}
\* what the user may type or paste into the console input
ConsoleTexts == {<<"x", "\n", "y">>, <<"?", "mean">>}

\* ----------------------------------------------------------------- runCode
\* the locals of one runCode invocation and where it is suspended:
\*   "shelter" at line 374, await new webR.Shelter()
\*   "capture" at line 377, await shelter.captureR(...)
\*   "purge"   at line 404, await shelter.purge()
\*   "help"    at line 216, await webR.evalRString(...)
\* thrown is the error propagating through the finally block; evalError,
\* nOutput and nPlots record what lines 377-401 did in this invocation,
\* atReady whether initWebR had completed when runCode was called, and
\* overtaken whether a lookup requested after this one, for another topic,
\* has completed
NewRun(pc, code, topic) ==
  [pc |-> pc, code |-> code, topic |-> topic, thrown |-> NoError,
   evalError |-> NoError, nOutput |-> 0, nPlots |-> 0,
   atReady |-> (initPc = "ready"), overtaken |-> FALSE]

EvalPcs == {"shelter", "capture", "purge"}

\* the invocation at position i returns
Return(i) == SubSeq(runs, 1, i - 1) \o SubSeq(runs, i + 1, Len(runs))

\* position i holds an invocation suspended at pc
At(i, pc) == i <= Len(runs) /\ runs[i].pc = pc

\* the lookup at position i returns; the lookups requested before it for
\* another topic and still suspended have been overtaken
Overtakes(i) ==
  [j \in 1..(Len(runs) - 1) |->
     IF j < i /\ runs[j].pc = "help" /\ runs[j].topic # runs[i].topic
     THEN [runs[j] EXCEPT !.overtaken = TRUE]
     ELSE Return(i)[j]]

\* setStatus, lines 155-160
setStatus(state, text) ==
  /\ statusDot' = state
  /\ statusText' = text

\* the echo of lines 368-371
RECURSIVE EchoLines(_, _)
EchoLines(lines, first) ==
  IF lines = <<>> THEN <<>>
  ELSE <<Line("command", <<(IF first THEN "> " ELSE "+ ")>> \o Head(lines))>>
       \o EchoLines(Tail(lines), FALSE)

\* line 352 without its test of isRunning
RunCodeSkipsNoLock(code) == ~webR \/ code = <<>>

\* the guard of line 352: TRUE when runCode returns at once
RunCodeSkips(code) == isRunning \/ ~webR \/ code = <<>>

\* a Ready session with nothing in flight whose console and help panel were
\* never used
Untouched ==
  /\ initPc = "ready"
  /\ runs = <<>>
  /\ commandHistory = <<>>
  /\ consoleValue = <<>>
  /\ helpTopic = <<>>

\* runCode with lines 362-365 moved above the help interception of 354-360
runCodeLockedHelp(code) ==
  IF RunCodeSkips(code)
  THEN UNCHANGED <<isRunning, runBtnDisabled, readOnly, statusDot,
                   statusText, consoleOutput, runs>>
  ELSE
    /\ \/ Len(consoleOutput) + Len(plotImages) <= MaxShown
       \/ /\ Untouched
          /\ consoleOutput = <<>>
          /\ Len(plotImages) <= MaxPlots
    /\ Len(runs) < MaxInFlight
    /\ isRunning' = TRUE
    /\ runBtnDisabled' = TRUE
    /\ readOnly' = TRUE
    /\ setStatus("loading", "Running...")
    /\ IF isHelpRequest(code) # <<>>
       THEN /\ consoleOutput' =
                 Append(consoleOutput, Line("command", <<"> ">> \o code))
            /\ runs' = Append(runs, NewRun("help", code, isHelpRequest(code)))
       ELSE /\ consoleOutput' = consoleOutput \o EchoLines(SplitLines(code), TRUE)
            /\ runs' = Append(runs, NewRun("shelter", code, <<>>))

\* runCode from its call to its first await (351-374), or to the await in
\* getHelp (354-358, 212-216).  It leaves alone what the callers set.
runCode(code) ==
  IF RunCodeSkips(code)
  THEN UNCHANGED <<isRunning, runBtnDisabled, readOnly, statusDot,
                   statusText, consoleOutput, runs>>
  ELSE
    /\ \/ Len(consoleOutput) + Len(plotImages) <= MaxShown
       \/ /\ Untouched
          /\ consoleOutput = <<>>
          /\ Len(plotImages) <= MaxPlots
    /\ Len(runs) < MaxInFlight
    /\ IF isHelpRequest(code) # <<>>
       THEN /\ consoleOutput' =
                 Append(consoleOutput, Line("command", <<"> ">> \o code))
            /\ runs' = Append(runs, NewRun("help", code, isHelpRequest(code)))
            /\ UNCHANGED <<isRunning, runBtnDisabled, readOnly, statusDot,
                           statusText>>
       ELSE /\ isRunning' = TRUE
            /\ runBtnDisabled' = TRUE
            /\ readOnly' = TRUE
            /\ setStatus("loading", "Running...")
            /\ consoleOutput' = consoleOutput \o EchoLines(SplitLines(code), TRUE)
            /\ runs' = Append(runs, NewRun("shelter", code, <<>>))

\* lines 387-395 with the test out.data.trim() on every branch
RECURSIVE ShownOutputTrimAll(_)
ShownOutputTrimAll(output) ==
  IF output = <<>> THEN <<>>
  ELSE LET out == Head(output)
           shown ==
             IF Trim(out.data) = <<>> THEN <<>>
             ELSE IF out.type = "stdout" THEN <<Line("stdout", out.data)>>
             ELSE IF out.type \in {"stderr", "message"}
             THEN <<Line("stderr", out.data)>>
             ELSE <<>>
       IN shown \o ShownOutputTrimAll(Tail(output))

\* the records lines 387-395 append for result.output, in order
RECURSIVE ShownOutput(_)
ShownOutput(output) ==
  IF output = <<>> THEN <<>>
  ELSE LET out == Head(output)
           shown ==
             IF out.type = "stdout" /\ Trim(out.data) # <<>>
             THEN <<Line("stdout", out.data)>>
             ELSE IF out.type = "stderr" /\ Trim(out.data) # <<>>
             THEN <<Line("stderr", out.data)>>
             ELSE IF out.type = "message"
             THEN <<Line("stderr", out.data)>>
             ELSE <<>>
       IN shown \o ShownOutput(Tail(output))

\* the data URL addPlot (275-284) derives from an image
DataUrl(img) == <<"data:image/png", img>>

\* lines 286-287 leaving currentPlotIndex where it was
AddPlotsKeepFocus(images, n) ==
  /\ plotImages' = plotImages \o [k \in 1..n |-> DataUrl(images[k])]
  /\ currentPlotIndex' = currentPlotIndex

\* addPlot (275-289) applied to the first n images, in order
AddPlots(images, n) ==
  /\ plotImages' = plotImages \o [k \in 1..n |-> DataUrl(images[k])]
  /\ currentPlotIndex' = IF n = 0 THEN currentPlotIndex
                         ELSE Len(plotImages) + n - 1

\* lines 411-414, the tail of runCode
Epilogue ==
  /\ isRunning' = FALSE
  /\ runBtnDisabled' = FALSE
  /\ readOnly' = FALSE
  /\ setStatus("ready", "Ready")
  /\ dropped' = FALSE

\* the catch block alone, as if lines 411-414 stood inside the try block
CatchNoEpilogue(i, msg) ==
  /\ consoleOutput' = Append(consoleOutput, ErrorLine(msg))
  /\ runs' = Return(i)
  /\ UNCHANGED <<isRunning, runBtnDisabled, readOnly, statusDot, statusText,
                 dropped>>

\* the catch block of lines 407-409, then lines 411-414; the invocation ends
CatchAndFinish(i, msg) ==
  /\ consoleOutput' = Append(consoleOutput, ErrorLine(msg))
  /\ Epilogue
  /\ runs' = Return(i)

\* line 374 resolves; line 377 issues captureR
ShelterResolve(i) ==
  /\ At(i, "shelter")
  /\ liveShelters' = liveShelters + 1
  /\ runs' = [runs EXCEPT ![i].pc = "capture"]
  /\ UNCHANGED <<webR, initPc, statusDot, statusText, runBtnDisabled, readOnly,
                 editorReadOnly, consoleOutput, consoleValue, commandHistory,
                 historyIndex, plotImages, currentPlotIndex, helpTopic,
                 helpContent, isRunning, dropped,
                 submitted>>

\* line 374 rejects: catch (407-409), then 411-414
ShelterReject(i) ==
  /\ At(i, "shelter")
  /\ \E msg \in ShelterErrors : CatchAndFinish(i, msg)
  /\ UNCHANGED <<webR, initPc, editorReadOnly, consoleValue, commandHistory,
                 historyIndex, plotImages, currentPlotIndex, helpTopic,
                 helpContent, liveShelters,
                 submitted>>

\* the finally block (403-405) is entered: purge() is called on the shelter
EnterFinally(i, thrown, evalError, nOutput, nPlots) ==
  /\ liveShelters' = liveShelters - 1
  /\ runs' = [runs EXCEPT ![i] =
       [@ EXCEPT !.pc = "purge", !.thrown = thrown, !.evalError = evalError,
                 !.nOutput = nOutput, !.nPlots = nPlots]]

\* line 377 resolves: lines 387-401 run; addPlot throws at image ok+1 when
\* ok < result.images.length; then the finally block is entered
CaptureResolve(i) ==
  /\ At(i, "capture")
  /\ \E result \in CaptureResults : \E ok \in 0..Len(result.images) :
       /\ consoleOutput' = consoleOutput \o ShownOutput(result.output)
       /\ AddPlots(result.images, ok)
       /\ EnterFinally(i,
            IF ok < Len(result.images) THEN ImageError ELSE NoError,
            NoError, Len(ShownOutput(result.output)), ok)
  /\ UNCHANGED <<webR, initPc, statusDot, statusText, runBtnDisabled, readOnly,
                 editorReadOnly, consoleValue, commandHistory, historyIndex,
                 helpTopic, helpContent, isRunning, dropped,
                 submitted>>

\* line 377 rejects, as if purge() stood at the end of the try block and
\* not in a finally block: the error goes straight to the catch
CaptureRejectNoFinally(i) ==
  /\ At(i, "capture")
  /\ \E msg \in EvalErrors : CatchAndFinish(i, msg)
  /\ UNCHANGED <<webR, initPc, editorReadOnly, consoleValue, commandHistory,
                 historyIndex, plotImages, currentPlotIndex, helpTopic,
                 helpContent, liveShelters,
                 submitted>>

\* line 377 rejects: the finally block is entered with the error propagating
CaptureReject(i) ==
  /\ At(i, "capture")
  /\ \E msg \in EvalErrors : EnterFinally(i, msg, msg, 0, 0)
  /\ UNCHANGED <<webR, initPc, statusDot, statusText, runBtnDisabled, readOnly,
                 editorReadOnly, consoleOutput, consoleValue, commandHistory,
                 historyIndex, plotImages, currentPlotIndex, helpTopic,
                 helpContent, isRunning, dropped,
                 submitted>>

\* line 404 resolves: a propagating error reaches the catch; then 411-414
PurgeResolve(i) ==
  /\ At(i, "purge")
  /\ IF runs[i].thrown # NoError
     THEN CatchAndFinish(i, runs[i].thrown)
     ELSE /\ Epilogue
          /\ runs' = Return(i)
          /\ UNCHANGED consoleOutput
  /\ UNCHANGED <<webR, initPc, editorReadOnly, consoleValue, commandHistory,
                 historyIndex, plotImages, currentPlotIndex, helpTopic,
                 helpContent, liveShelters,
                 submitted>>

\* line 404 rejects: its error replaces any propagating one; catch; 411-414
PurgeReject(i) ==
  /\ At(i, "purge")
  /\ \E msg \in PurgeErrors : CatchAndFinish(i, msg)
  /\ UNCHANGED <<webR, initPc, editorReadOnly, consoleValue, commandHistory,
                 historyIndex, plotImages, currentPlotIndex, helpTopic,
                 helpContent, liveShelters,
                 submitted>>

\* ------------------------------------------------------------------- help
HelpEmpty == <<"<span class=\"help-empty\">Run ?topic or help(topic) to view documentation</span>">>

\* the replace chain of lines 197-202 on one token of the text
FormatToken(text, k) ==
  LET t == text[k]
      ownLine == /\ (k = 1 \/ text[k - 1] = "\n")
                 /\ (k = Len(text) \/ text[k + 1] = "\n")
  IN CASE t = "a < b" -> "a &lt; b"
       [] t = "_Title_" /\ ownLine -> "<div class=\"help-section\">Title</div>"
       [] OTHER -> t

\* the innerHTML lines 196-204 make of text
FormatHelp(text) ==
  <<"<div class=\"help-content\">">>
  \o [k \in 1..Len(text) |-> FormatToken(text, k)]
  \o <<"</div>">>

\* displayHelp, lines 189-205
displayHelp(topic, text) ==
  /\ helpTopic' = topic
  /\ helpContent' = FormatHelp(text)

\* line 216 resolves: line 231; the runCode invocation returns (359)
HelpResolve(i) ==
  /\ At(i, "help")
  /\ \E text \in HelpTexts : displayHelp(runs[i].topic, text)
  /\ runs' = Overtakes(i)
  /\ UNCHANGED <<webR, initPc, statusDot, statusText, runBtnDisabled, readOnly,
                 editorReadOnly, consoleOutput, consoleValue, commandHistory,
                 historyIndex, plotImages, currentPlotIndex, isRunning,
                 liveShelters, dropped,
                 submitted>>

\* line 216 rejects: line 233
HelpReject(i) ==
  /\ At(i, "help")
  /\ \E msg \in HelpErrors :
       displayHelp(runs[i].topic, <<"Error getting help: ">> \o msg)
  /\ runs' = Overtakes(i)
  /\ UNCHANGED <<webR, initPc, statusDot, statusText, runBtnDisabled, readOnly,
                 editorReadOnly, consoleOutput, consoleValue, commandHistory,
                 historyIndex, plotImages, currentPlotIndex, isRunning,
                 liveShelters, dropped,
                 submitted>>

\* clearHelp, lines 182-187
clearHelp ==
  /\ helpContent' = HelpEmpty
  /\ helpTopic' = <<>>
  /\ UNCHANGED <<webR, initPc, statusDot, statusText, runBtnDisabled, readOnly,
                 editorReadOnly, consoleOutput, consoleValue, commandHistory,
                 historyIndex, plotImages, currentPlotIndex, isRunning, runs,
                 liveShelters, dropped,
                 submitted>>

\* -------------------------------------------------------------- bootstrap
\* initWebR is suspended at one of its awaits: "init" (304), "configuring"
\* (308), "installing" (322), "library" (330); or it has returned: "ready"
\* (after 342), "failed" (after the catch, 344-348)
LoadingPcs == {"init", "configuring", "installing", "library"}

\* clearConsole, lines 175-178
clearConsole ==
  /\ consoleOutput' = <<>>
  /\ UNCHANGED <<webR, initPc, statusDot, statusText, runBtnDisabled, readOnly,
                 editorReadOnly, consoleValue, commandHistory, historyIndex,
                 plotImages, currentPlotIndex, helpTopic, helpContent,
                 isRunning, runs, liveShelters, dropped,
                 submitted>>

\* webR.init() resolves: lines 306-308
InitResolve ==
  /\ initPc = "init"
  /\ initPc' = "configuring"
  /\ setStatus("loading", "Configuring repositories...")
  /\ UNCHANGED <<webR, runBtnDisabled, readOnly, editorReadOnly, consoleOutput,
                 consoleValue, commandHistory, historyIndex, plotImages,
                 currentPlotIndex, helpTopic, helpContent, isRunning, runs,
                 liveShelters, dropped,
                 submitted>>

\* the options() call resolves: lines 318-322
ConfigureResolve ==
  /\ initPc = "configuring"
  /\ initPc' = "installing"
  /\ setStatus("loading", "Installing animovement...")
  /\ consoleOutput' = <<Line("system", <<"Installing animovement package...">>)>>
  /\ UNCHANGED <<webR, runBtnDisabled, readOnly, editorReadOnly, consoleValue,
                 commandHistory, historyIndex, plotImages, currentPlotIndex,
                 helpTopic, helpContent, isRunning, runs, liveShelters,
                 dropped,
                 submitted>>

\* webr::install resolves: lines 329-330
InstallResolve ==
  /\ initPc = "installing"
  /\ initPc' = "library"
  /\ consoleOutput' =
       Append(consoleOutput, Line("system", <<"Loading animovement...">>))
  /\ UNCHANGED <<webR, statusDot, statusText, runBtnDisabled, readOnly,
                 editorReadOnly, consoleValue, commandHistory, historyIndex,
                 plotImages, currentPlotIndex, helpTopic, helpContent,
                 isRunning, runs, liveShelters, dropped,
                 submitted>>

\* library(animovement) resolves: lines 332-342
LibraryResolve ==
  /\ initPc = "library"
  /\ initPc' = "ready"
  /\ consoleOutput' = consoleOutput
       \o <<Line("system", <<"Ready! animovement is loaded.">>),
            Line("system", <<>>)>>
  /\ setStatus("ready", "Ready")
  /\ runBtnDisabled' = FALSE
  /\ readOnly' = FALSE
  /\ UNCHANGED <<webR, editorReadOnly, consoleValue, commandHistory,
                 historyIndex, plotImages, currentPlotIndex, helpTopic,
                 helpContent, isRunning, runs, liveShelters, dropped,
                 submitted>>

\* the awaited call of any stage rejects: the catch of lines 344-348
InitReject ==
  /\ initPc \in LoadingPcs
  /\ initPc' = "failed"
  /\ setStatus("error", "Initialization failed")
  /\ \E msg \in InitErrors :
       consoleOutput' = Append(consoleOutput, ErrorLine(msg))
  /\ UNCHANGED <<webR, runBtnDisabled, readOnly, editorReadOnly, consoleValue,
                 commandHistory, historyIndex, plotImages, currentPlotIndex,
                 helpTopic, helpContent, isRunning, runs, liveShelters,
                 dropped,
                 submitted>>

\* ---------------------------------------------------------------- console
\* the user edits the console input; a read-only CodeMirror takes no typing
TypeConsole ==
  /\ ~readOnly
  /\ \E text \in ConsoleTexts : consoleValue' = text
  /\ UNCHANGED <<webR, initPc, statusDot, statusText, runBtnDisabled, readOnly,
                 editorReadOnly, consoleOutput, commandHistory, historyIndex,
                 plotImages, currentPlotIndex, helpTopic, helpContent,
                 isRunning, runs, liveShelters, dropped,
                 submitted>>

\* commandHistory.push(code) in the place of line 106
PushBack(history, code) == Append(history, code)

\* commandHistory.unshift(code), line 106
Unshift(history, code) == <<code>> \o history

\* lines 103-111 with lines 106-107 run only when runCode takes the code
handleConsoleEnterIfTaken ==
  LET code == Trim(consoleValue) IN
  /\ code # <<>>
  /\ Len(commandHistory) < MaxHist
  /\ commandHistory' = IF RunCodeSkips(code) THEN commandHistory
                        ELSE Unshift(commandHistory, code)
  /\ historyIndex' = IF RunCodeSkips(code) THEN historyIndex ELSE -1
  /\ consoleValue' = <<>>
  /\ runCode(code)
  /\ dropped' = (dropped \/ isRunning)
  /\ submitted' = IF RunCodeSkips(code) THEN submitted
                   ELSE Append(submitted, code)
  /\ UNCHANGED <<webR, initPc, editorReadOnly, plotImages, currentPlotIndex,
                 helpTopic, helpContent, liveShelters>>

\* handleConsoleEnter, lines 103-111 (a key binding: it runs whatever the
\* readOnly option is)
handleConsoleEnter ==
  LET code == Trim(consoleValue) IN
  /\ code # <<>>
  /\ Len(commandHistory) < MaxHist
  /\ commandHistory' = Unshift(commandHistory, code)
  /\ historyIndex' = -1
  /\ consoleValue' = <<>>
  /\ runCode(code)
  /\ dropped' = (dropped \/ isRunning)
  /\ submitted' = Append(submitted, code)
  /\ UNCHANGED <<webR, initPc, editorReadOnly, plotImages, currentPlotIndex,
                 helpTopic, helpContent, liveShelters>>

\* the cursor and the buffer of the console input
Console(index, value) == [index |-> index, value |-> value]

\* lines 113-119 reading the history from its other end
ConsoleUpOldestFirst(c) ==
  IF c.index < Len(commandHistory) - 1
  THEN Console(c.index + 1, commandHistory[Len(commandHistory) - (c.index + 1)])
  ELSE c

\* lines 113-119 without the test of line 114; an index past the end reads
\* undefined
ConsoleUpUnguarded(c) ==
  Console(c.index + 1,
          IF c.index + 2 \in DOMAIN commandHistory
          THEN commandHistory[c.index + 2] ELSE <<"undefined">>)

\* what handleConsoleUp (113-119) makes of cursor and buffer; commandHistory
\* is 0-based in the source and 1-based here
ConsoleUp(c) ==
  IF c.index < Len(commandHistory) - 1
  THEN Console(c.index + 1, commandHistory[(c.index + 1) + 1])
  ELSE c

\* lines 121-130 without the branch of lines 126-129
ConsoleDownNoLiveLine(c) ==
  IF c.index > 0
  THEN Console(c.index - 1, commandHistory[(c.index - 1) + 1])
  ELSE c

\* what handleConsoleDown (121-130) makes of cursor and buffer
ConsoleDown(c) ==
  IF c.index > 0
  THEN Console(c.index - 1, commandHistory[(c.index - 1) + 1])
  ELSE IF c.index = 0
  THEN Console(-1, <<>>)
  ELSE c

\* handleConsoleUp, lines 113-119
handleConsoleUp ==
  /\ historyIndex' = ConsoleUp(Console(historyIndex, consoleValue)).index
  /\ consoleValue' = ConsoleUp(Console(historyIndex, consoleValue)).value
  /\ UNCHANGED <<webR, initPc, statusDot, statusText, runBtnDisabled, readOnly,
                 editorReadOnly, consoleOutput, commandHistory, plotImages,
                 currentPlotIndex, helpTopic, helpContent, isRunning, runs,
                 liveShelters, dropped,
                 submitted>>

\* handleConsoleDown, lines 121-130
handleConsoleDown ==
  /\ historyIndex' = ConsoleDown(Console(historyIndex, consoleValue)).index
  /\ consoleValue' = ConsoleDown(Console(historyIndex, consoleValue)).value
  /\ UNCHANGED <<webR, initPc, statusDot, statusText, runBtnDisabled, readOnly,
                 editorReadOnly, consoleOutput, commandHistory, plotImages,
                 currentPlotIndex, helpTopic, helpContent, isRunning, runs,
                 liveShelters, dropped,
                 submitted>>

\* ----------------------------------------------------------------- editor
\* runFromEditor, lines 132-151, with code the selection or the current line
runFromEditor(code) ==
  /\ IF Trim(code) # <<>>
     THEN runCode(Trim(code))
     ELSE UNCHANGED <<isRunning, runBtnDisabled, readOnly, statusDot,
                      statusText, consoleOutput, runs>>
  /\ UNCHANGED <<webR, initPc, editorReadOnly, consoleValue, commandHistory,
                 historyIndex, plotImages, currentPlotIndex, helpTopic,
                 helpContent, liveShelters, dropped,
                 submitted>>

\* Cmd-Enter / Ctrl-Enter in the editor, lines 56-57
EditorRunKey == \E code \in EditorCodes : runFromEditor(code)

\* Cmd-Enter / Ctrl-Enter on a line holding a help(topic) call
EditorHelpKey == \E code \in EditorHelpCalls : runFromEditor(code)

\* a click on the Run button, line 544; a disabled button takes no click
RunButtonClick ==
  /\ ~runBtnDisabled
  /\ \E code \in EditorCodes : runFromEditor(code)

\* ------------------------------------------------------------------ plots
\* clearPlots (291-295) without line 293
clearPlotsKeepIndex ==
  /\ plotImages' = <<>>
  /\ UNCHANGED <<webR, initPc, statusDot, statusText, runBtnDisabled, readOnly,
                 editorReadOnly, consoleOutput, consoleValue, commandHistory,
                 historyIndex, currentPlotIndex, helpTopic, helpContent,
                 isRunning, runs, liveShelters, dropped, submitted>>

\* clearPlots, lines 291-295
clearPlots ==
  /\ plotImages' = <<>>
  /\ currentPlotIndex' = 0
  /\ UNCHANGED <<webR, initPc, statusDot, statusText, runBtnDisabled, readOnly,
                 editorReadOnly, consoleOutput, consoleValue, commandHistory,
                 historyIndex, helpTopic, helpContent, isRunning, runs,
                 liveShelters, dropped, submitted>>

\* the index after a click on the Previous button, lines 551-556
PrevClick(index) == IF index > 0 THEN index - 1 ELSE index

\* the index after a click on the Next button, lines 560-565
NextClick(index) ==
  IF index < Len(plotImages) - 1 THEN index + 1 ELSE index

\* the index after ArrowLeft outside the editors, line 573-575
PrevKey(index) ==
  IF Len(plotImages) > 0 /\ index > 0 THEN index - 1 ELSE index

\* the index after ArrowRight outside the editors, lines 576-578
NextKey(index) ==
  IF Len(plotImages) > 0 /\ index < Len(plotImages) - 1
  THEN index + 1 ELSE index

\* the Previous button (551-556) or the ArrowLeft key (573-575)
PlotPrev ==
  /\ currentPlotIndex' \in
       {PrevClick(currentPlotIndex), PrevKey(currentPlotIndex)}
  /\ UNCHANGED <<webR, initPc, statusDot, statusText, runBtnDisabled, readOnly,
                 editorReadOnly, consoleOutput, consoleValue, commandHistory,
                 historyIndex, plotImages, helpTopic, helpContent, isRunning,
                 runs, liveShelters, dropped, submitted>>

\* the Next button (560-565) or the ArrowRight key (576-578)
PlotNext ==
  /\ currentPlotIndex' \in
       {NextClick(currentPlotIndex), NextKey(currentPlotIndex)}
  /\ UNCHANGED <<webR, initPc, statusDot, statusText, runBtnDisabled, readOnly,
                 editorReadOnly, consoleOutput, consoleValue, commandHistory,
                 historyIndex, plotImages, helpTopic, helpContent, isRunning,
                 runs, liveShelters, dropped, submitted>>

\* ---------------------------------------------------------- specification
\* the state when init() (591-612) returns: initWebR is suspended at line
\* 304, or new WebR() threw and the catch of 344-348 ran with webR null
Init ==
  /\ editorReadOnly = FALSE
  /\ readOnly = TRUE
  /\ runBtnDisabled = TRUE
  /\ consoleValue = <<>>
  /\ commandHistory = <<>>
  /\ historyIndex = -1
  /\ plotImages = <<>>
  /\ currentPlotIndex = 0
  /\ helpTopic = <<>>
  /\ helpContent = HelpEmpty
  /\ isRunning = FALSE
  /\ runs = <<>>
  /\ dropped = FALSE
  /\ submitted = <<>>
  /\ liveShelters = 0
  /\ \/ /\ webR = TRUE
        /\ initPc = "init"
        /\ statusDot = "loading"
        /\ statusText = "Initializing WebR..."
        /\ consoleOutput = <<>>
     \/ /\ webR = FALSE
        /\ initPc = "failed"
        /\ statusDot = "error"
        /\ statusText = "Initialization failed"
        /\ \E msg \in InitErrors : consoleOutput = <<ErrorLine(msg)>>

\* the interpreter call awaited by the evaluation at position i settles
EvalSettle(i) ==
  \/ ShelterResolve(i)
  \/ ShelterReject(i)
  \/ CaptureResolve(i)
  \/ CaptureReject(i)
  \/ PurgeResolve(i)
  \/ PurgeReject(i)

\* the documentation lookup awaited at position i settles
HelpSettle(i) ==
  \/ HelpResolve(i)
  \/ HelpReject(i)

\* the bootstrap call initWebR awaits settles
BootstrapSettle ==
  \/ InitResolve
  \/ ConfigureResolve
  \/ InstallResolve
  \/ LibraryResolve
  \/ InitReject

Next ==
  \/ BootstrapSettle
  \/ TypeConsole
  \/ handleConsoleEnter
  \/ handleConsoleUp
  \/ handleConsoleDown
  \/ EditorRunKey
  \/ RunButtonClick
  \/ clearConsole
  \/ clearHelp
  \/ clearPlots
  \/ PlotPrev
  \/ PlotNext
  \/ \E i \in Slots : EvalSettle(i)
  \/ \E i \in Slots : HelpSettle(i)

Spec == Init /\ [][Next]_vars

\* every interpreter call awaited by an evaluation eventually resolves or
\* rejects
FairSpec == Spec /\ WF_vars(\E i \in Slots : EvalSettle(i))

\* the session of a user who works from the editor alone and asks for the
\* documentation of two topics
EditorNext ==
  \/ BootstrapSettle
  \/ EditorRunKey
  \/ EditorHelpKey
  \/ RunButtonClick
  \/ clearConsole
  \/ clearHelp
  \/ clearPlots
  \/ \E i \in Slots : EvalSettle(i)
  \/ \E i \in Slots : HelpSettle(i)

EditorSpec == Init /\ [][EditorNext]_vars

\* ----------------------------------------------------------------- claims
\* positions of runs holding an evaluation (not a help lookup)
Evaluations == {i \in 1..Len(runs) : runs[i].pc \in EvalPcs}

\* this step is the end of the evaluation at position i (lines 407-414)
Resolves(i) == (At(i, "purge") \/ At(i, "shelter")) /\ runs' = Return(i)

\* this step is a submission to runCode: from the editor or from the console
Submission == EditorRunKey \/ RunButtonClick \/ handleConsoleEnter

\* C1: at most one evaluation is in flight in every reachable state: the
\* Run Lock is held exactly while one runCode invocation is between its
\* line 362 and its line 411, and at most one shelter is live
C1_SingleFlight ==
  /\ Cardinality(Evaluations) <= 1
  /\ isRunning <=> (Evaluations # {})
  /\ liveShelters <= 1

\* a second submission arrived while captureR was in flight
C1_Witness ==
  /\ dropped
  /\ \E i \in Evaluations : runs[i].pc = "capture"

\* C2: whenever the Run Lock is set it is eventually cleared with the
\* status back at ready, given that interpreter calls settle; and the lock
\* only becomes set by a step that starts an evaluation (an early return
\* sets no lock)
C2_LockReleased ==
  /\ isRunning ~> (~isRunning /\ statusDot = "ready")
  /\ [][(~isRunning /\ isRunning') =>
          /\ Len(runs') = Len(runs) + 1
          /\ runs'[Len(runs')].pc = "shelter"]_vars

\* a run whose context release failed has ended with the lock cleared
C2_Witness ==
  /\ ~isRunning
  /\ statusDot = "ready"
  /\ \E k \in 1..Len(consoleOutput) : \E msg \in PurgeErrors :
       consoleOutput[k] = ErrorLine(msg)

\* C3: whenever the Run Lock is free no shelter is live (every shelter
\* acquired had purge() called on it before the lock was cleared), and the
\* number of live shelters never exceeds one
C3_NoLeak ==
  /\ ~isRunning => liveShelters = 0
  /\ liveShelters \in {0, 1}

\* a run whose evaluation failed has ended
C3_Witness ==
  /\ ~isRunning
  /\ liveShelters = 0
  /\ \E k \in 1..Len(consoleOutput) : \E msg \in EvalErrors :
       consoleOutput[k] = ErrorLine(msg)

\* C4: a run started in Ready that ends by reporting an error has appended
\* no output record before it (never output records, then an error record)
C4_OutputOrError ==
  [][\A i \in Slots :
       (Resolves(i) /\ runs[i].atReady /\ consoleOutput' # consoleOutput)
         => runs[i].nOutput = 0]_vars

\* C5: when captureR raised with message m in a run started in Ready, the
\* run ends by appending exactly the error record of m, with the lock
\* cleared and no plot appended by the run
C5_EvalErrorReported ==
  [][\A i \in Slots :
       (Resolves(i) /\ runs[i].atReady /\ runs[i].evalError # NoError)
         => /\ consoleOutput' =
                 Append(consoleOutput, ErrorLine(runs[i].evalError))
            /\ runs[i].nPlots = 0
            /\ ~isRunning']_vars

\* C6: a submission made while the Run Lock is held changes neither the
\* output log, the plots, the shelters, the lock, the status nor the set of
\* suspended invocations (nothing is queued for later)
C6_DroppedSubmission ==
  [][(isRunning /\ Submission) =>
       UNCHANGED <<consoleOutput, plotImages, currentPlotIndex, liveShelters,
                   runs, isRunning, statusDot, statusText, helpTopic,
                   helpContent>>]_vars

\* a console submission was dropped while an evaluation was in flight
C6_Witness ==
  /\ isRunning
  /\ dropped
  /\ commandHistory # <<>>
  /\ consoleValue = <<>>

\* C7: a submission made before initWebR has completed, or after it has
\* failed, sets no lock, writes no output, starts no invocation and leaves
\* the status display alone
C7_NotReadyNoOp ==
  [][(initPc # "ready" /\ Submission) =>
       UNCHANGED <<isRunning, consoleOutput, liveShelters, runs, statusDot,
                   statusText>>]_vars

\* C8: once initWebR has failed and the status shows error, no step makes
\* the status leave error, enables the console input or takes the Run Lock
C8_ErrorTerminal ==
  [][(initPc = "failed" /\ statusDot = "error") =>
       /\ statusDot' = "error"
       /\ readOnly => readOnly'
       /\ isRunning' => isRunning]_vars

\* C9: the status shows ready, and the console input is enabled, only when
\* every bootstrap stage has completed
C9_ReadyOnlyAfterBootstrap ==
  (statusDot = "ready" \/ ~readOnly) => initPc = "ready"

\* C10: while the Run Lock is held the console input and the editor are
\* both read-only
C10_InputsDisabledWhileRunning ==
  isRunning => (readOnly /\ editorReadOnly)

\* s in reverse order
Reverse(s) == [k \in 1..Len(s) |-> s[Len(s) + 1 - k]]

\* handleConsoleUp called n times in a row
RECURSIVE UpTimes(_, _)
UpTimes(c, n) == IF n = 0 THEN c ELSE UpTimes(ConsoleUp(c), n - 1)

\* handleConsoleDown called n times in a row
RECURSIVE DownTimes(_, _)
DownTimes(c, n) == IF n = 0 THEN c ELSE DownTimes(ConsoleDown(c), n - 1)

\* this step is an ArrowUp or ArrowDown in the console input
Navigation == handleConsoleUp \/ handleConsoleDown

\* C11: after the non-empty console submissions s_1..s_k the history is
\* [s_k, ..., s_1], whatever editor runs, evaluations, help lookups and
\* navigation came in between: every entry is a non-empty submission, none
\* is merged, removed or moved
C11_HistoryOrder ==
  /\ commandHistory = Reverse(submitted)
  /\ \A k \in 1..Len(submitted) : submitted[k] # <<>>

\* two different commands were submitted, an evaluation produced plots and
\* the user has browsed to the oldest entry
C11_Witness ==
  /\ Len(submitted) = 2
  /\ submitted[1] # submitted[2]
  /\ plotImages # <<>>
  /\ historyIndex = 1

\* C12 as stated: with a fresh cursor after the submissions s_1..s_k, the
\* j-th ArrowUp in a row shows s_j, and the (k+1)-th changes nothing
C12_UpRecallsOldestFirst ==
  historyIndex = -1 =>
    LET k == Len(submitted)
        c == Console(-1, consoleValue)
    IN /\ \A j \in 1..k : UpTimes(c, j).value = submitted[j]
       /\ UpTimes(c, k + 1) = UpTimes(c, k)

\* C12 amended: with a fresh cursor after the submissions s_1..s_k, the
\* j-th ArrowUp in a row shows s_(k+1-j) (the newest first, s_1 last) with
\* the cursor at j-1, and the (k+1)-th changes neither cursor nor buffer;
\* every ArrowUp that moves the cursor moves it by one and shows the
\* submission it then points at
C12_UpRecallsNewestFirst ==
  /\ [](historyIndex = -1 =>
          LET k == Len(submitted)
              c == Console(-1, consoleValue)
          IN /\ \A j \in 1..k :
                  UpTimes(c, j) = Console(j - 1, submitted[k + 1 - j])
             /\ UpTimes(c, k + 1) = UpTimes(c, k))
  /\ [][handleConsoleUp =>
          IF historyIndex < Len(submitted) - 1
          THEN /\ historyIndex' = historyIndex + 1
               /\ consoleValue' = submitted[Len(submitted) - historyIndex']
          ELSE UNCHANGED <<historyIndex, consoleValue>>]_vars

\* after two different commands the second ArrowUp in a row has brought
\* back the first of them
C12_Witness ==
  /\ Len(submitted) = 2
  /\ submitted[1] # submitted[2]
  /\ historyIndex = 1
  /\ consoleValue = submitted[1]
  /\ ~isRunning

\* C13: from a cursor at an entry, ArrowDown pressed cursor+1 times in a row
\* ends at cursor -1 with an empty buffer, and no sooner; ArrowDown at
\* cursor -1 changes neither cursor nor buffer
C13_DownReturnsToLiveLine ==
  LET c == Console(historyIndex, consoleValue)
  IN /\ historyIndex >= 0 =>
          /\ DownTimes(c, historyIndex + 1) = Console(-1, <<>>)
          /\ \A n \in 0..historyIndex :
               DownTimes(c, n).index = historyIndex - n
     /\ historyIndex = -1 => ConsoleDown(c) = c

\* the cursor is at the oldest of two entries and the user has typed over
\* the recalled text
C13_Witness ==
  /\ historyIndex = 1
  /\ Len(commandHistory) = 2
  /\ consoleValue # commandHistory[2]

\* C14: the cursor is -1 or an index of the history in every reachable
\* state; a navigation step that leaves the cursor at an entry leaves that
\* entry in the buffer, and one that returns the cursor to -1 leaves the
\* buffer empty
C14_CursorInBounds ==
  /\ [](historyIndex \in -1..(Len(commandHistory) - 1))
  /\ [][(Navigation /\ <<historyIndex, consoleValue>>' #
                       <<historyIndex, consoleValue>>) =>
          IF historyIndex' >= 0
          THEN consoleValue' = commandHistory[historyIndex' + 1]
          ELSE consoleValue' = <<>>]_vars

\* the cursor is at the last index of a history of two
C14_Witness ==
  /\ Len(commandHistory) = 2
  /\ historyIndex = Len(commandHistory) - 1
  /\ consoleValue = commandHistory[historyIndex + 1]

\* this step is the one in which the evaluation at position i consumes the
\* result of captureR (lines 387-401)
Consumes(i) ==
  /\ At(i, "capture")
  /\ Len(runs') = Len(runs)
  /\ runs'[i].pc = "purge"
  /\ runs'[i].evalError = NoError

\* C15: the current plot index is 0 when the gallery is empty and an index
\* of the gallery otherwise, whatever appends, clears, next and prev came
\* before; next at the last index and prev at index 0, by button or by
\* key, leave the index where it is
C15_PlotIndexInBounds ==
  /\ plotImages = <<>> => currentPlotIndex = 0
  /\ plotImages # <<>> => currentPlotIndex \in 0..(Len(plotImages) - 1)
  /\ currentPlotIndex = Len(plotImages) - 1 =>
       /\ NextClick(currentPlotIndex) = currentPlotIndex
       /\ NextKey(currentPlotIndex) = currentPlotIndex
  /\ currentPlotIndex = 0 =>
       /\ PrevClick(currentPlotIndex) = currentPlotIndex
       /\ PrevKey(currentPlotIndex) = currentPlotIndex

\* plots were appended to a gallery that held plots, and the user has gone
\* back to the first of them
C15_Witness ==
  /\ Len(plotImages) >= 3
  /\ currentPlotIndex = 0

Style(type) ==
  CASE type = "stdout" -> "stdout"
    [] type = "stderr" -> "stderr"
    [] type = "message" -> "stderr"

\* a Stdout or Stderr record whose text is empty or all whitespace
Blank(out) ==
  /\ out.type \in {"stdout", "stderr"}
  /\ \A k \in 1..Len(out.data) : IsSpace(out.data[k])

\* the records of output that are not Blank, in order, each in its style
Kept(output) ==
  LET kept == SelectSeq(output, LAMBDA out : ~Blank(out))
  IN [k \in 1..Len(kept) |-> Line(Style(kept[k].type), kept[k].data)]

\* C17: the step in which an evaluation consumes its result appends to the
\* log exactly the result's records in order, each in the style of its
\* type, without the Stdout and Stderr records whose text is blank; a
\* message record is appended even when its text is empty
C17_OutputFiltered ==
  [][\A i \in Slots : Consumes(i) =>
       \E result \in CaptureResults :
         /\ consoleOutput' = consoleOutput \o Kept(result.output)
         /\ runs'[i].nOutput = Len(Kept(result.output))
         /\ \A k \in 1..Len(result.output) :
              result.output[k].type = "message" =>
                \E j \in (Len(consoleOutput) + 1)..Len(consoleOutput') :
                  consoleOutput'[j] = Line("stderr", result.output[k].data)]_vars

\* a successful evaluation has ended and its empty message record is the
\* last line of the log, after its echo and its non-blank records
C17_Witness ==
  /\ ~isRunning
  /\ Len(consoleOutput) = 5
  /\ consoleOutput[1].type = "command"
  /\ consoleOutput[3] = Line("stdout", <<"[1] 2">>)
  /\ consoleOutput[4] = Line("stderr", <<"NaNs produced">>)
  /\ consoleOutput[5] = Line("stderr", <<>>)

\* this step is a call of runCode that goes to getHelp (354-358)
HelpStarts ==
  /\ Len(runs') = Len(runs) + 1
  /\ runs'[Len(runs')].pc = "help"

\* this step is the end of the lookup at position i (231 or 233)
HelpEnds(i) == At(i, "help") /\ runs' = Overtakes(i)

C19_DroppedSubmissionRecorded ==
  [][(handleConsoleEnter /\ RunCodeSkips(Trim(consoleValue))) =>
       /\ commandHistory' = <<Trim(consoleValue)>> \o commandHistory
       /\ historyIndex' = -1
       /\ consoleValue' = <<>>
       /\ UNCHANGED <<consoleOutput, runs, isRunning, liveShelters,
                      plotImages, statusDot>>]_vars

\* both entries of the history were submitted while the evaluation still
\* in flight held the lock: neither was evaluated
C19_Witness ==
  /\ isRunning
  /\ dropped
  /\ Len(commandHistory) = 2
  /\ historyIndex = -1
  /\ \A i \in 1..Len(runs) : runs[i].code # commandHistory[1]

\* what the panel may hold after displayHelp for a lookup that has ended
HelpBodies ==
  {FormatHelp(text) : text \in HelpTexts}
  \cup {FormatHelp(<<"Error getting help: ">> \o msg) : msg \in HelpErrors}

\* C20: when a lookup requested in Ready ends after a lookup requested
\* later for another topic has ended, it leaves the panel as it is;
\* otherwise the panel shows its topic with a body of its own; and the
\* panel changes in no other way but by clearHelp
C20_NewestLookupShown ==
  [][/\ \A i \in Slots : (HelpEnds(i) /\ runs[i].atReady) =>
          IF runs[i].overtaken
          THEN UNCHANGED <<helpTopic, helpContent>>
          ELSE helpTopic' = runs[i].topic /\ helpContent' \in HelpBodies
     /\ <<helpTopic, helpContent>>' # <<helpTopic, helpContent>> =>
          clearHelp \/ \E i \in Slots : HelpEnds(i)]_vars

====
